---------------------------- MODULE Spec2Model ----------------------------
(***************************************************************************)
(* A model of generate_icons.py: the rounded-rectangle primitives, the     *)
(* icon composition routine create_cyberpunk_icon, the manifest builder    *)
(* generate_contents_json and the driver main.                             *)
(*                                                                         *)
(* Four specifications share the variables below:                          *)
(*   Spec      main(), one step per statement, every write may fail        *)
(*   SpecPar   the table entries processed in any interleaving             *)
(*   SpecIcon  create_cyberpunk_icon(size), one step per drawing call      *)
(*   SpecRect  the two rounded-rectangle primitives on bounded inputs      *)
(***************************************************************************)
EXTENDS Integers, Sequences, FiniteSets, TLC

VARIABLES
    pc,        \* main: position in main()
    idx,       \* main: index into SIZES of the for loop of line 219
    icon,      \* main: the canvas returned by create_cyberpunk_icon, or NoCanvas
    dirExists, \* main: whether ICON_DIR exists
    files0,    \* main: the output directory as main() found it
    files,     \* the output directory: file name -> contents
    written,   \* the names of the files whose write completed in this run, in order
    wstage,    \* SpecPar: entry index -> stage of its worker
    wcanvas,   \* SpecPar: entry index -> the worker's private canvas
    size,      \* SpecIcon: the argument of create_cyberpunk_icon
    ipc,       \* SpecIcon: position in create_cyberpunk_icon
    lp,        \* SpecIcon: the running loop variable (x, y, i or g)
    cell,      \* SpecIcon: index into tile_positions of the loop of line 87
    calls,     \* SpecIcon: the drawing calls create_cyberpunk_icon made, in order
    drawn,     \* SpecIcon: the primitive operations issued on the canvas, in order
    rin,       \* SpecRect: the arguments of the primitive
    rfn,       \* SpecRect: which primitive was called
    rout       \* SpecRect: the operations the primitive issued

mainVars == <<pc, idx, icon, dirExists, files0, files, written>>
parVars  == <<wstage, wcanvas>>
iconVars == <<size, ipc, lp, cell, calls, drawn>>
rectVars == <<rin, rfn, rout>>
vars == <<pc, idx, icon, dirExists, files0, files, written, wstage, wcanvas,
          size, ipc, lp, cell, calls, drawn, rin, rfn, rout>>

-----------------------------------------------------------------------------
(* Bounds of the model *)

MaxCoord == 5
MaxRadius == 4
MaxSmallSize == 130

-----------------------------------------------------------------------------
(* Constants of the program *)

\* the table with the "@2x" of the second file name lost
SIZES_duplicate_name ==
    << <<16,   "1x", "icon_16x16.png">>,
       <<32,   "2x", "icon_16x16.png">>,
       <<32,   "1x", "icon_32x32.png">>,
       <<64,   "2x", "icon_32x32@2x.png">>,
       <<128,  "1x", "icon_128x128.png">>,
       <<256,  "2x", "icon_128x128@2x.png">>,
       <<256,  "1x", "icon_256x256.png">>,
       <<512,  "2x", "icon_256x256@2x.png">>,
       <<512,  "1x", "icon_512x512.png">>,
       <<1024, "2x", "icon_512x512@2x.png">> >>

SIZES ==
    << <<16,   "1x", "icon_16x16.png">>,
       <<32,   "2x", "icon_16x16@2x.png">>,
       <<32,   "1x", "icon_32x32.png">>,
       <<64,   "2x", "icon_32x32@2x.png">>,
       <<128,  "1x", "icon_128x128.png">>,
       <<256,  "2x", "icon_128x128@2x.png">>,
       <<256,  "1x", "icon_256x256.png">>,
       <<512,  "2x", "icon_256x256@2x.png">>,
       <<512,  "1x", "icon_512x512.png">>,
       <<1024, "2x", "icon_512x512@2x.png">> >>

DARK_BG      == <<10, 10, 15>>
NEON_CYAN    == <<0, 255, 255>>
NEON_MAGENTA == <<255, 0, 150>>
NEON_BLUE    == <<30, 144, 255>>
GRID_COLOR   == <<0, 80, 100>>

min(a, b) == IF a <= b THEN a ELSE b
max(a, b) == IF a >= b THEN a ELSE b

\* (*color, alpha): the colour tuple with an alpha channel appended
WithAlpha(color, alpha) == Append(color, alpha)

-----------------------------------------------------------------------------
(* The drawing operations of ImageDraw, as records appended to a log *)

DrawLine(xa, ya, xb, yb, fill, width) ==
    [op |-> "line", xy |-> <<xa, ya, xb, yb>>, fill |-> fill, width |-> width]

DrawArc(xa, ya, xb, yb, start, end, fill, width) ==
    [op |-> "arc", xy |-> <<xa, ya, xb, yb>>, start |-> start, end |-> end,
     fill |-> fill, width |-> width]

DrawRectangleOutline(xa, ya, xb, yb, outline, width) ==
    [op |-> "rectangle", xy |-> <<xa, ya, xb, yb>>, outline |-> outline,
     width |-> width]

DrawRectangleFill(xa, ya, xb, yb, fill) ==
    [op |-> "rectangle", xy |-> <<xa, ya, xb, yb>>, fill |-> fill]

DrawEllipse(xa, ya, xb, yb, fill) ==
    [op |-> "ellipse", xy |-> <<xa, ya, xb, yb>>, fill |-> fill]

-----------------------------------------------------------------------------
(* draw_rounded_rect and draw_filled_rounded_rect *)

\* the swaps of lines 135-138 and 167-170: the lower and the upper coordinate
lo(a, b) == IF b < a THEN b ELSE a
hi(a, b) == IF b < a THEN a ELSE b

\* line 141 / 172, on the normalised coordinates
max_radius(x1, y1, x2, y2) == min((x2 - x1) \div 2, (y2 - y1) \div 2)

\* a clamp that lets the requested radius through
clamp_radius_unclamped(radius, x1, y1, x2, y2) == radius

\* a clamp that always takes the largest radius
clamp_radius_always_max(radius, x1, y1, x2, y2) == max_radius(x1, y1, x2, y2)

\* line 142 / 173: radius = min(radius, max_radius)
clamp_radius(radius, x1, y1, x2, y2) == min(radius, max_radius(x1, y1, x2, y2))

\* lines 144-161 on normalised coordinates and the clamped radius
rounded_rect_ops(x1, y1, x2, y2, radius, color, width) ==
    IF radius <= 0
    THEN << DrawRectangleOutline(x1, y1, x2, y2, color, width) >>
    ELSE << DrawLine(x1 + radius, y1, x2 - radius, y1, color, width),
            DrawLine(x1 + radius, y2, x2 - radius, y2, color, width),
            DrawLine(x1, y1 + radius, x1, y2 - radius, color, width),
            DrawLine(x2, y1 + radius, x2, y2 - radius, color, width),
            DrawArc(x1, y1, x1 + radius * 2, y1 + radius * 2, 180, 270, color, width),
            DrawArc(x2 - radius * 2, y1, x2, y1 + radius * 2, 270, 360, color, width),
            DrawArc(x1, y2 - radius * 2, x1 + radius * 2, y2, 90, 180, color, width),
            DrawArc(x2 - radius * 2, y2 - radius * 2, x2, y2, 0, 90, color, width) >>

draw_rounded_rect(x1, y1, x2, y2, radius, color, width) ==
    LET nx1 == lo(x1, x2)
        nx2 == hi(x1, x2)
        ny1 == lo(y1, y2)
        ny2 == hi(y1, y2)
    IN  rounded_rect_ops(nx1, ny1, nx2, ny2,
                         clamp_radius(radius, nx1, ny1, nx2, ny2), color, width)

\* lines 175-187 on normalised coordinates and the clamped radius
filled_rounded_rect_ops(x1, y1, x2, y2, radius, color) ==
    IF radius <= 0
    THEN << DrawRectangleFill(x1, y1, x2, y2, color) >>
    ELSE << DrawRectangleFill(x1 + radius, y1, x2 - radius, y2, color),
            DrawRectangleFill(x1, y1 + radius, x2, y2 - radius, color),
            DrawEllipse(x1, y1, x1 + radius * 2, y1 + radius * 2, color),
            DrawEllipse(x2 - radius * 2, y1, x2, y1 + radius * 2, color),
            DrawEllipse(x1, y2 - radius * 2, x1 + radius * 2, y2, color),
            DrawEllipse(x2 - radius * 2, y2 - radius * 2, x2, y2, color) >>

draw_filled_rounded_rect(x1, y1, x2, y2, radius, color) ==
    LET nx1 == lo(x1, x2)
        nx2 == hi(x1, x2)
        ny1 == lo(y1, y2)
        ny2 == hi(y1, y2)
    IN  filled_rounded_rect_ops(nx1, ny1, nx2, ny2,
                                clamp_radius(radius, nx1, ny1, nx2, ny2), color)

-----------------------------------------------------------------------------
(* create_cyberpunk_icon: the geometry *)

\* the sizes of the table, and the sizes create_cyberpunk_icon is run on
TableSizes == { SIZES[k][1] : k \in 1..Len(SIZES) }
SizeInputs == TableSizes \cup (1..MaxSmallSize)

\* an accent width with the floor of 2 left out
accent_width_unfloored(sz) == (4 * sz) \div 512

\* a grid gate that also lets a spacing of 2 through
grid_drawn_from_two(sz) == (32 * sz) \div 512 >= 2

\* int(k * scale) with scale = size / 512 (line 42): size / 512 and k * scale
\* are exact in binary floating point, and int() truncates
scaled(k, sz) == (k * sz) \div 512

grid_spacing(sz)    == scaled(32, sz)                 \* line 45
grid_drawn(sz)      == grid_spacing(sz) > 2           \* line 46
grid_line_width(sz) == max(1, scaled(1, sz))          \* lines 48, 50
padding(sz)         == scaled(60, sz)                 \* line 53
border_width(sz)    == max(2, scaled(8, sz))          \* line 57
corner_radius(sz)   == scaled(80, sz)                 \* line 58
\* a glow whose alpha rises with the distance from the border
glow_alpha_rising(i) == i * 20

glow_alpha(i)       == 80 - (i * 20)                  \* line 62
glow_width(sz, i)   == border_width(sz) + (i * scaled(4, sz))   \* line 63
grid_padding(sz)    == scaled(100, sz)                \* line 73
grid_size(sz)       == sz - (grid_padding(sz) * 2)    \* line 74
cell_gap(sz)        == scaled(16, sz)                 \* line 75
cell_size(sz)       == (grid_size(sz) - cell_gap(sz)) \div 2    \* line 76

tile_positions(sz) ==                                 \* lines 78-83
    << <<grid_padding(sz), grid_padding(sz)>>,
       <<grid_padding(sz) + cell_size(sz) + cell_gap(sz), grid_padding(sz)>>,
       <<grid_padding(sz), grid_padding(sz) + cell_size(sz) + cell_gap(sz)>>,
       <<grid_padding(sz) + cell_size(sz) + cell_gap(sz),
         grid_padding(sz) + cell_size(sz) + cell_gap(sz)>> >>

tile_colors == <<NEON_CYAN, NEON_MAGENTA, NEON_BLUE, NEON_CYAN>>   \* line 85

cell_corner(sz)       == scaled(12, sz)               \* line 89
cell_glow_alpha(g)    == 60 - (g * 20)                \* line 93
cell_glow_width(sz)   == max(1, scaled(2, sz))        \* line 96
cell_border_width(sz) == max(1, scaled(3, sz))        \* line 104
scanlines_drawn(sz)   == sz >= 128                    \* line 107
accent_len(sz)        == scaled(30, sz)               \* line 112
accent_width(sz)      == max(2, scaled(4, sz))        \* line 113

\* the four draw.line calls of lines 116-127, as <<xa, ya, xb, yb>>
accent_segments(sz) ==
    LET p == padding(sz)
        r == corner_radius(sz)
        a == accent_len(sz)
    IN  << <<p, p + r, p, p + r + a>>,
           <<p + r, p, p + r + a, p>>,
           <<sz - p, sz - p - r, sz - p, sz - p - r - a>>,
           <<sz - p - r, sz - p, sz - p - r - a, sz - p>> >>

-----------------------------------------------------------------------------
(* create_cyberpunk_icon: the calls it makes *)

CallNew(sz) ==                                        \* line 38
    [fn |-> "Image.new", args |-> <<sz, sz>>, color |-> DARK_BG]

CallLine(seg, color, width) ==
    [fn |-> "draw.line", args |-> seg, color |-> color, width |-> width]

CallRoundedRect(x1, y1, x2, y2, radius, color, width) ==
    [fn |-> "draw_rounded_rect", args |-> <<x1, y1, x2, y2, radius>>,
     color |-> color, width |-> width]

CallFilledRoundedRect(x1, y1, x2, y2, radius, color) ==
    [fn |-> "draw_filled_rounded_rect", args |-> <<x1, y1, x2, y2, radius>>,
     color |-> color]

\* what a call issues on the canvas
OpsOf(c) ==
    CASE c.fn = "Image.new" ->
           << [op |-> "new", xy |-> c.args, fill |-> c.color] >>
      [] c.fn = "draw.line" ->
           << DrawLine(c.args[1], c.args[2], c.args[3], c.args[4], c.color, c.width) >>
      [] c.fn = "draw_rounded_rect" ->
           draw_rounded_rect(c.args[1], c.args[2], c.args[3], c.args[4],
                             c.args[5], c.color, c.width)
      [] c.fn = "draw_filled_rounded_rect" ->
           draw_filled_rounded_rect(c.args[1], c.args[2], c.args[3], c.args[4],
                                    c.args[5], c.color)

Emit(c) ==
    /\ calls' = Append(calls, c)
    /\ drawn' = drawn \o OpsOf(c)

\* the i-th outer glow outline, lines 61-66
glow_call(sz, i) ==
    CallRoundedRect(padding(sz) - i * 2, padding(sz) - i * 2,
                    sz - padding(sz) + i * 2, sz - padding(sz) + i * 2,
                    corner_radius(sz) + i * 2,
                    WithAlpha(NEON_CYAN, glow_alpha(i)), glow_width(sz, i))

\* the main border, lines 69-70
border_call(sz) ==
    CallRoundedRect(padding(sz), padding(sz), sz - padding(sz), sz - padding(sz),
                    corner_radius(sz), NEON_CYAN, border_width(sz))

\* the g-th glow outline of cell k, lines 92-96
cell_glow_call(sz, k, g) ==
    LET tx == tile_positions(sz)[k][1]
        ty == tile_positions(sz)[k][2]
    IN  CallRoundedRect(tx - g, ty - g, tx + cell_size(sz) + g, ty + cell_size(sz) + g,
                        cell_corner(sz) + g,
                        WithAlpha(tile_colors[k], cell_glow_alpha(g)),
                        cell_glow_width(sz))

\* the fill of cell k, lines 99-100
cell_fill_call(sz, k) ==
    LET tx == tile_positions(sz)[k][1]
        ty == tile_positions(sz)[k][2]
    IN  CallFilledRoundedRect(tx, ty, tx + cell_size(sz), ty + cell_size(sz),
                              cell_corner(sz), WithAlpha(tile_colors[k], 40))

\* the border of cell k, lines 103-104
cell_border_call(sz, k) ==
    LET tx == tile_positions(sz)[k][1]
        ty == tile_positions(sz)[k][2]
    IN  CallRoundedRect(tx, ty, tx + cell_size(sz), ty + cell_size(sz),
                        cell_corner(sz), WithAlpha(tile_colors[k], 220),
                        cell_border_width(sz))

-----------------------------------------------------------------------------
(* create_cyberpunk_icon: one step per drawing call *)

IconNew ==                                            \* lines 38-46
    /\ ipc = "start"
    /\ Emit(CallNew(size))
    /\ ipc' = IF grid_drawn(size) THEN "grid_x" ELSE "glow"
    /\ lp' = IF grid_drawn(size) THEN 0 ELSE 3
    /\ UNCHANGED <<size, cell>>

IconGridX ==                                          \* lines 47-48
    /\ ipc = "grid_x"
    /\ Emit(CallLine(<<lp, 0, lp, size>>, WithAlpha(GRID_COLOR, 40),
                     grid_line_width(size)))
    /\ IF lp + grid_spacing(size) < size
       THEN lp' = lp + grid_spacing(size) /\ ipc' = "grid_x"
       ELSE lp' = 0 /\ ipc' = "grid_y"
    /\ UNCHANGED <<size, cell>>

IconGridY ==                                          \* lines 49-50
    /\ ipc = "grid_y"
    /\ Emit(CallLine(<<0, lp, size, lp>>, WithAlpha(GRID_COLOR, 40),
                     grid_line_width(size)))
    /\ IF lp + grid_spacing(size) < size
       THEN lp' = lp + grid_spacing(size) /\ ipc' = "grid_y"
       ELSE lp' = 3 /\ ipc' = "glow"
    /\ UNCHANGED <<size, cell>>

IconGlow ==                                           \* lines 61-66
    /\ ipc = "glow"
    /\ Emit(glow_call(size, lp))
    /\ IF lp > 1
       THEN lp' = lp - 1 /\ ipc' = "glow"
       ELSE lp' = 0 /\ ipc' = "border"
    /\ UNCHANGED <<size, cell>>

IconBorder ==                                         \* lines 69-70
    /\ ipc = "border"
    /\ Emit(border_call(size))
    /\ ipc' = "cell_glow"
    /\ cell' = 1
    /\ lp' = 2
    /\ UNCHANGED size

IconCellGlow ==                                       \* lines 92-96
    /\ ipc = "cell_glow"
    /\ Emit(cell_glow_call(size, cell, lp))
    /\ IF lp > 1
       THEN lp' = lp - 1 /\ ipc' = "cell_glow"
       ELSE lp' = 0 /\ ipc' = "cell_fill"
    /\ UNCHANGED <<size, cell>>

IconCellFill ==                                       \* lines 99-100
    /\ ipc = "cell_fill"
    /\ Emit(cell_fill_call(size, cell))
    /\ ipc' = "cell_border"
    /\ UNCHANGED <<size, cell, lp>>

IconCellBorder ==                                     \* lines 103-107
    /\ ipc = "cell_border"
    /\ Emit(cell_border_call(size, cell))
    /\ IF cell < Len(tile_positions(size))
       THEN cell' = cell + 1 /\ lp' = 2 /\ ipc' = "cell_glow"
       ELSE /\ cell' = cell
            /\ IF scanlines_drawn(size)
               THEN lp' = 0 /\ ipc' = "scan"
               ELSE lp' = 1 /\ ipc' = "accent"
    /\ UNCHANGED size

IconScan ==                                           \* lines 108-109
    /\ ipc = "scan"
    /\ Emit(CallLine(<<0, lp, size, lp>>, <<0, 0, 0, 15>>, 1))
    /\ IF lp + 4 < size
       THEN lp' = lp + 4 /\ ipc' = "scan"
       ELSE lp' = 1 /\ ipc' = "accent"
    /\ UNCHANGED <<size, cell>>

IconAccent ==                                         \* lines 112-129
    /\ ipc = "accent"
    /\ Emit(CallLine(accent_segments(size)[lp], NEON_MAGENTA, accent_width(size)))
    /\ IF lp < 4
       THEN lp' = lp + 1 /\ ipc' = "accent"
       ELSE lp' = 0 /\ ipc' = "done"
    /\ UNCHANGED <<size, cell>>

-----------------------------------------------------------------------------
(* Canvases and files *)

\* Image.new('RGBA', (size, size), DARK_BG), line 38: a canvas of its own
blank_canvas(sz) == [size |-> sz, painted |-> FALSE]

\* lines 39-127: the drawing calls, which read nothing but size and the
\* module's constants; the painted canvas of size sz holds the log `drawn`
\* that SpecIcon ends with
paint(c) == [c EXCEPT !.painted = TRUE]

create_cyberpunk_icon(sz) == paint(blank_canvas(sz))

NoCanvas == [size |-> 0, painted |-> FALSE]

PngFile(c)     == [kind |-> "png", canvas |-> c]
JsonFile(d)    == [kind |-> "json", data |-> d]
PartialFile    == [kind |-> "partial"]
StaleFile      == [kind |-> "stale"]

NoFiles == << >>

\* open(path, "w") / Image.save(path): create or replace the file
WriteFile(dir, name, content) ==
    [n \in (DOMAIN dir) \cup {name} |-> IF n = name THEN content ELSE dir[n]]

ManifestName == "Contents.json"

-----------------------------------------------------------------------------
(* generate_contents_json *)

Digit(d) ==
    CASE d = 0 -> "0" [] d = 1 -> "1" [] d = 2 -> "2" [] d = 3 -> "3"
      [] d = 4 -> "4" [] d = 5 -> "5" [] d = 6 -> "6" [] d = 7 -> "7"
      [] d = 8 -> "8" [] d = 9 -> "9"

\* the decimal text of a natural number, as the f-string of line 199 formats it
RECURSIVE IntToStr(_)
IntToStr(n) == IF n < 10 THEN Digit(n) ELSE IntToStr(n \div 10) \o Digit(n % 10)

\* a base size that forgets to halve the "2x" entries
base_size_unhalved(sz, scale) == sz

\* line 194
base_size(sz, scale) == IF scale = "1x" THEN sz ELSE sz \div 2

\* lines 195-200
manifest_entry(e) ==
    [filename |-> e[3],
     idiom    |-> "mac",
     scale    |-> e[2],
     size     |-> IntToStr(base_size(e[1], e[2])) \o "x" \o IntToStr(base_size(e[1], e[2]))]

\* lines 192-208
generate_contents_json ==
    [images |-> [k \in 1..Len(SIZES) |-> manifest_entry(SIZES[k])],
     info   |-> [author |-> "xcode", version |-> 1]]

-----------------------------------------------------------------------------
(* main: one step per statement; makedirs and every write may fail *)

MakeDirs ==                                           \* line 215
    /\ pc = "makedirs"
    /\ dirExists' = TRUE
    /\ pc' = "create"
    /\ UNCHANGED <<idx, icon, files0, files, written>>

MakeDirsFail ==                                       \* line 215 raising OSError
    /\ pc = "makedirs"
    /\ ~dirExists
    /\ pc' = "failed"
    /\ UNCHANGED <<idx, icon, dirExists, files0, files, written>>

Create ==                                             \* lines 219-221
    /\ pc = "create"
    /\ idx <= Len(SIZES)
    /\ icon' = create_cyberpunk_icon(SIZES[idx][1])
    /\ pc' = "save"
    /\ UNCHANGED <<idx, dirExists, files0, files, written>>

\* a failing save after which the loop goes on with the next entry
SaveFailContinues ==
    /\ pc = "save"
    /\ idx < Len(SIZES)
    /\ idx' = idx + 1
    /\ pc' = "create"
    /\ UNCHANGED <<icon, dirExists, files0, files, written>>

\* a save that leaves the loop one entry early
SaveOffByOne ==
    /\ pc = "save"
    /\ files' = WriteFile(files, SIZES[idx][3], PngFile(icon))
    /\ written' = Append(written, SIZES[idx][3])
    /\ idx' = idx + 1
    /\ pc' = IF idx + 1 < Len(SIZES) THEN "create" ELSE "manifest"
    /\ UNCHANGED <<icon, dirExists, files0>>

Save ==                                               \* line 222
    /\ pc = "save"
    /\ files' = WriteFile(files, SIZES[idx][3], PngFile(icon))
    /\ written' = Append(written, SIZES[idx][3])
    /\ idx' = idx + 1
    /\ pc' = IF idx < Len(SIZES) THEN "create" ELSE "manifest"
    /\ UNCHANGED <<icon, dirExists, files0>>

\* line 222 raising: the file is untouched, or was opened and left incomplete
SaveFail ==
    /\ pc = "save"
    /\ \/ files' = files
       \/ files' = WriteFile(files, SIZES[idx][3], PartialFile)
    /\ pc' = "failed"
    /\ UNCHANGED <<idx, icon, dirExists, files0, written>>

WriteManifest ==                                      \* lines 225-230
    /\ pc = "manifest"
    /\ files' = WriteFile(files, ManifestName, JsonFile(generate_contents_json))
    /\ written' = Append(written, ManifestName)
    /\ pc' = "done"
    /\ UNCHANGED <<idx, icon, dirExists, files0>>

\* lines 226-227 raising: open() failed, or json.dump failed on the open file
WriteManifestFail ==
    /\ pc = "manifest"
    /\ \/ files' = files
       \/ files' = WriteFile(files, ManifestName, PartialFile)
    /\ pc' = "failed"
    /\ UNCHANGED <<idx, icon, dirExists, files0, written>>

-----------------------------------------------------------------------------
(* The table entries processed in any order and any interleaving: entry k's *)
(* steps are allocate canvas (line 38), draw (lines 39-127), save (line 222) *)

Entries == 1..Len(SIZES)

Allocate(k) ==
    /\ wstage[k] = "todo"
    /\ wcanvas' = [wcanvas EXCEPT ![k] = blank_canvas(SIZES[k][1])]
    /\ wstage' = [wstage EXCEPT ![k] = "allocated"]
    /\ UNCHANGED files

Draw(k) ==
    /\ wstage[k] = "allocated"
    /\ wcanvas' = [wcanvas EXCEPT ![k] = paint(wcanvas[k])]
    /\ wstage' = [wstage EXCEPT ![k] = "drawn"]
    /\ UNCHANGED files

SaveEntry(k) ==
    /\ wstage[k] = "drawn"
    /\ files' = WriteFile(files, SIZES[k][3], PngFile(wcanvas[k]))
    /\ wstage' = [wstage EXCEPT ![k] = "saved"]
    /\ UNCHANGED wcanvas

-----------------------------------------------------------------------------
(* The primitives on bounded inputs *)

Coords == (-1)..MaxCoord
Radii  == (-1)..MaxRadius
Colors == { NEON_CYAN, WithAlpha(NEON_MAGENTA, 40) }
Widths == { 1, 3 }

NoRect == [x1 |-> 0, y1 |-> 0, x2 |-> 0, y2 |-> 0, radius |-> 0,
           color |-> NEON_CYAN, width |-> 1]

CallOutline ==                                        \* lines 132-161
    /\ rfn = "none"
    /\ rout' = draw_rounded_rect(rin.x1, rin.y1, rin.x2, rin.y2, rin.radius,
                                 rin.color, rin.width)
    /\ rfn' = "draw_rounded_rect"
    /\ UNCHANGED rin

CallFilled ==                                         \* lines 164-187
    /\ rfn = "none"
    /\ rout' = draw_filled_rounded_rect(rin.x1, rin.y1, rin.x2, rin.y2, rin.radius,
                                        rin.color)
    /\ rfn' = "draw_filled_rounded_rect"
    /\ UNCHANGED rin

-----------------------------------------------------------------------------
(* The specifications *)

MainIdle ==
    /\ pc = "idle" /\ idx = 0 /\ icon = NoCanvas /\ dirExists = TRUE
    /\ files0 = NoFiles /\ written = << >>

ParIdle == wstage = << >> /\ wcanvas = << >>

IconIdle ==
    /\ size = 0 /\ ipc = "idle" /\ lp = 0 /\ cell = 0
    /\ calls = << >> /\ drawn = << >>

RectIdle == rin = NoRect /\ rfn = "idle" /\ rout = << >>

\* what the output directory may hold when main() starts
PreNames == { SIZES[1][3], ManifestName, "notes.txt" }

Init ==
    /\ pc = "makedirs"
    /\ idx = 1
    /\ icon = NoCanvas
    /\ dirExists \in BOOLEAN
    /\ files0 \in { [n \in S |-> StaleFile] : S \in SUBSET PreNames }
    /\ dirExists = FALSE => files0 = NoFiles
    /\ files = files0
    /\ written = << >>
    /\ ParIdle /\ IconIdle /\ RectIdle

Next ==
    \/ MakeDirs          /\ UNCHANGED <<parVars, iconVars, rectVars>>
    \/ MakeDirsFail      /\ UNCHANGED <<parVars, iconVars, rectVars>>
    \/ Create            /\ UNCHANGED <<parVars, iconVars, rectVars>>
    \/ Save              /\ UNCHANGED <<parVars, iconVars, rectVars>>
    \/ SaveFail          /\ UNCHANGED <<parVars, iconVars, rectVars>>
    \/ WriteManifest     /\ UNCHANGED <<parVars, iconVars, rectVars>>
    \/ WriteManifestFail /\ UNCHANGED <<parVars, iconVars, rectVars>>

Spec == Init /\ [][Next]_vars

InitPar ==
    /\ wstage = [k \in Entries |-> "todo"]
    /\ wcanvas = [k \in Entries |-> NoCanvas]
    /\ files = NoFiles
    /\ MainIdle /\ IconIdle /\ RectIdle

NextPar ==
    \/ \E k \in Entries : Allocate(k)  /\ UNCHANGED <<pc, idx, icon, dirExists, files0, written, iconVars, rectVars>>
    \/ \E k \in Entries : Draw(k)      /\ UNCHANGED <<pc, idx, icon, dirExists, files0, written, iconVars, rectVars>>
    \/ \E k \in Entries : SaveEntry(k) /\ UNCHANGED <<pc, idx, icon, dirExists, files0, written, iconVars, rectVars>>

SpecPar == InitPar /\ [][NextPar]_vars

InitIcon ==
    /\ size \in SizeInputs
    /\ ipc = "start"
    /\ lp = 0
    /\ cell = 0
    /\ calls = << >>
    /\ drawn = << >>
    /\ files = NoFiles
    /\ MainIdle /\ ParIdle /\ RectIdle

NextIcon ==
    \/ IconNew        /\ UNCHANGED <<mainVars, parVars, rectVars>>
    \/ IconGridX      /\ UNCHANGED <<mainVars, parVars, rectVars>>
    \/ IconGridY      /\ UNCHANGED <<mainVars, parVars, rectVars>>
    \/ IconGlow       /\ UNCHANGED <<mainVars, parVars, rectVars>>
    \/ IconBorder     /\ UNCHANGED <<mainVars, parVars, rectVars>>
    \/ IconCellGlow   /\ UNCHANGED <<mainVars, parVars, rectVars>>
    \/ IconCellFill   /\ UNCHANGED <<mainVars, parVars, rectVars>>
    \/ IconCellBorder /\ UNCHANGED <<mainVars, parVars, rectVars>>
    \/ IconScan       /\ UNCHANGED <<mainVars, parVars, rectVars>>
    \/ IconAccent     /\ UNCHANGED <<mainVars, parVars, rectVars>>

SpecIcon == InitIcon /\ [][NextIcon]_vars

InitRect ==
    /\ rin \in [x1 : Coords, y1 : Coords, x2 : Coords, y2 : Coords,
                radius : Radii, color : Colors, width : Widths]
    /\ rfn = "none"
    /\ rout = << >>
    /\ files = NoFiles
    /\ MainIdle /\ ParIdle /\ IconIdle

NextRect ==
    \/ CallOutline /\ UNCHANGED <<mainVars, parVars, iconVars>>
    \/ CallFilled  /\ UNCHANGED <<mainVars, parVars, iconVars>>

SpecRect == InitRect /\ [][NextRect]_vars

-----------------------------------------------------------------------------
(* Claims about the rounded-rectangle primitives, under SpecRect *)

\* the rectangle of the call with its corners in order, and half its shorter side
RectLeft   == min(rin.x1, rin.x2)
RectRight  == max(rin.x1, rin.x2)
RectTop    == min(rin.y1, rin.y2)
RectBottom == max(rin.y1, rin.y2)
RectHalf   == min((RectRight - RectLeft) \div 2, (RectBottom - RectTop) \div 2)
RectShorterSide == min(RectRight - RectLeft, RectBottom - RectTop)

\* C5: clamping idempotence. A call of draw_rounded_rect or
\* draw_filled_rounded_rect with a radius of at least half the shorter side
\* issues exactly the operations of the call with the radius equal to half the
\* shorter side, and no line, arc or ellipse of any call uses a radius larger
\* than that half.
C5_ClampingIdempotence ==
    /\ (rfn = "draw_rounded_rect" /\ rin.radius >= RectHalf) =>
           rout = draw_rounded_rect(rin.x1, rin.y1, rin.x2, rin.y2, RectHalf,
                                    rin.color, rin.width)
    /\ (rfn = "draw_filled_rounded_rect" /\ rin.radius >= RectHalf) =>
           rout = draw_filled_rounded_rect(rin.x1, rin.y1, rin.x2, rin.y2, RectHalf,
                                           rin.color)
    /\ \A k \in 1..Len(rout) :
           /\ rout[k].op \in {"arc", "ellipse"} =>
                  /\ rout[k].xy[3] - rout[k].xy[1] <= 2 * RectHalf
                  /\ rout[k].xy[4] - rout[k].xy[2] <= 2 * RectHalf
           /\ (rout[k].op = "line" /\ k \in {1, 2}) =>
                  /\ rout[k].xy[1] - RectLeft <= RectHalf
                  /\ RectRight - rout[k].xy[3] <= RectHalf
           /\ (rout[k].op = "line" /\ k \in {3, 4}) =>
                  /\ rout[k].xy[2] - RectTop <= RectHalf
                  /\ RectBottom - rout[k].xy[4] <= RectHalf

\* a filled rounded rectangle was asked for with reversed corners and a radius
\* larger than half the shorter side, and ellipses were drawn
C5_Witness ==
    /\ rfn = "draw_filled_rounded_rect"
    /\ rin.x2 < rin.x1
    /\ rin.radius > RectHalf
    /\ RectHalf > 0
    /\ Len(rout) = 6

\* the radius after clamping is <= 0
RectDegenerate == rin.radius <= 0 \/ RectShorterSide < 2
RectRadius == IF rin.radius <= RectHalf THEN rin.radius ELSE RectHalf

\* C6: degenerate radius fallback. When the requested radius is <= 0 or the
\* shorter side is less than 2, the outline is exactly one plain rectangle
\* outline over the normalised corners and the fill exactly one plain filled
\* rectangle; otherwise the outline is four edge lines, each shortened by the
\* radius at both ends, followed by four corner arcs.
C6_DegenerateFallback ==
    /\ (rfn = "draw_rounded_rect" /\ RectDegenerate) =>
           rout = << [op |-> "rectangle",
                      xy |-> <<RectLeft, RectTop, RectRight, RectBottom>>,
                      outline |-> rin.color, width |-> rin.width] >>
    /\ (rfn = "draw_filled_rounded_rect" /\ RectDegenerate) =>
           rout = << [op |-> "rectangle",
                      xy |-> <<RectLeft, RectTop, RectRight, RectBottom>>,
                      fill |-> rin.color] >>
    /\ (rfn = "draw_rounded_rect" /\ ~RectDegenerate) =>
           /\ Len(rout) = 8
           /\ \A k \in 1..4 : rout[k].op = "line"
           /\ \A k \in 5..8 : rout[k].op = "arc"
           /\ \A k \in 1..8 : rout[k].fill = rin.color /\ rout[k].width = rin.width
           /\ rout[1].xy = <<RectLeft + RectRadius, RectTop, RectRight - RectRadius, RectTop>>
           /\ rout[2].xy = <<RectLeft + RectRadius, RectBottom, RectRight - RectRadius, RectBottom>>
           /\ rout[3].xy = <<RectLeft, RectTop + RectRadius, RectLeft, RectBottom - RectRadius>>
           /\ rout[4].xy = <<RectRight, RectTop + RectRadius, RectRight, RectBottom - RectRadius>>

\* an outline was asked for with a positive radius on a rectangle whose shorter
\* side is less than 2, with reversed corners
C6_Witness ==
    /\ rfn = "draw_rounded_rect"
    /\ rin.radius > 0
    /\ RectShorterSide < 2
    /\ rin.y2 < rin.y1
    /\ Len(rout) = 1

-----------------------------------------------------------------------------
(* Claims about create_cyberpunk_icon, under SpecIcon *)

IsGridCall(c) == c.fn = "draw.line" /\ c.color = <<0, 80, 100, 40>>
IsScanCall(c) == c.fn = "draw.line" /\ c.color = <<0, 0, 0, 15>>

\* how many grid lines and scanlines were drawn so far
NumGrid == Cardinality({ k \in 1..Len(calls) : IsGridCall(calls[k]) })
NumScan == Cardinality({ k \in 1..Len(calls) : IsScanCall(calls[k]) })

\* what a call is, without its geometry: the routine and the colour
Sig(c) == <<c.fn, c.color>>

Repeat(x, n) == [k \in 1..n |-> x]

CellOrder(color) ==
    << <<"draw_rounded_rect", Append(color, 20)>>,
       <<"draw_rounded_rect", Append(color, 40)>>,
       <<"draw_filled_rounded_rect", Append(color, 40)>>,
       <<"draw_rounded_rect", Append(color, 220)>> >>

\* the order of passes the claim gives, with ng grid lines and ns scanlines
PassOrder(ng, ns) ==
    << <<"Image.new", <<10, 10, 15>>>> >>
    \o Repeat(<<"draw.line", <<0, 80, 100, 40>>>>, ng)
    \o << <<"draw_rounded_rect", <<0, 255, 255, 20>>>>,
          <<"draw_rounded_rect", <<0, 255, 255, 40>>>>,
          <<"draw_rounded_rect", <<0, 255, 255, 60>>>>,
          <<"draw_rounded_rect", <<0, 255, 255>>>> >>
    \o CellOrder(<<0, 255, 255>>)
    \o CellOrder(<<255, 0, 150>>)
    \o CellOrder(<<30, 144, 255>>)
    \o CellOrder(<<0, 255, 255>>)
    \o Repeat(<<"draw.line", <<0, 0, 0, 15>>>>, ns)
    \o Repeat(<<"draw.line", <<255, 0, 150>>>>, 4)

\* the calls of the finished routine by their place in the order
GlowCall(i)       == calls[1 + NumGrid + i]
BorderCall        == calls[1 + NumGrid + 4]
CellGlowCall(k, j) == calls[1 + NumGrid + 4 + 4 * (k - 1) + j]
CellFillCall(k)   == calls[1 + NumGrid + 4 + 4 * (k - 1) + 3]
CellBorderCall(k) == calls[1 + NumGrid + 4 + 4 * (k - 1) + 4]
AccentCall(j)     == calls[1 + NumGrid + 20 + NumScan + j]

\* C7: the passes come in the fixed order background, grid, three outer glows
\* (alpha 20, 40, 60, from the largest to the smallest), main border, the four
\* cells top-left, top-right, bottom-left, bottom-right in cyan, magenta, blue,
\* cyan (two glows, fill of alpha 40, outline of alpha 220 each), scanlines,
\* four accent segments: at every moment the calls made so far are a prefix of
\* that order, and the finished routine has made all of it.
C7_PassOrder ==
    ipc # "idle" =>
      LET sigs == [k \in 1..Len(calls) |-> Sig(calls[k])]
          order == PassOrder(NumGrid, NumScan)
      IN  /\ Len(sigs) <= Len(order)
          /\ sigs = SubSeq(order, 1, Len(sigs))
          /\ ipc = "done" =>
               /\ sigs = order
               \* the glows shrink towards the border
               /\ GlowCall(1).args[1] < GlowCall(2).args[1]
               /\ GlowCall(2).args[1] < GlowCall(3).args[1]
               /\ GlowCall(3).args[1] < BorderCall.args[1]
               /\ GlowCall(1).args[3] > GlowCall(2).args[3]
               /\ GlowCall(2).args[3] > GlowCall(3).args[3]
               /\ GlowCall(3).args[3] > BorderCall.args[3]
               \* cells 1, 2 are the top row, 3, 4 the bottom row;
               \* cells 1, 3 the left column, 2, 4 the right column
               /\ CellFillCall(1).args[2] = CellFillCall(2).args[2]
               /\ CellFillCall(3).args[2] = CellFillCall(4).args[2]
               /\ CellFillCall(1).args[1] = CellFillCall(3).args[1]
               /\ CellFillCall(2).args[1] = CellFillCall(4).args[1]
               /\ size >= 2 => CellFillCall(1).args[1] < CellFillCall(2).args[1]
               /\ size >= 2 => CellFillCall(1).args[2] < CellFillCall(3).args[2]
               \* the glows, the fill and the outline of a cell are about one cell
               /\ \A k \in 1..4 :
                    /\ CellBorderCall(k).args = CellFillCall(k).args
                    /\ CellGlowCall(k, 1).args[1] < CellGlowCall(k, 2).args[1]
                    /\ CellGlowCall(k, 2).args[1] < CellFillCall(k).args[1]

\* the routine finished on the largest icon, having drawn a grid and scanlines
C7_Witness ==
    /\ ipc = "done"
    /\ size = 1024
    /\ NumGrid > 0
    /\ NumScan > 0
    /\ Len(calls) = 25 + NumGrid + NumScan

\* C8: the grid is drawn exactly when floor(32 * size / 512) > 2 and the
\* scanlines exactly when size >= 128, one at every y = 0, 4, 8, ... < size;
\* in the table, 16 and 32 get neither, 64 the grid only, 128 and up get both.
C8_OptionalPasses ==
    ipc = "done" =>
      /\ (NumGrid > 0) <=> ((32 * size) \div 512 > 2)
      /\ (NumScan > 0) <=> (size >= 128)
      /\ NumScan > 0 =>
           /\ NumScan = Cardinality({ y \in 0..(size - 1) : y % 4 = 0 })
           /\ \A j \in 1..NumScan :
                calls[1 + NumGrid + 20 + j].args = <<0, 4 * (j - 1), size, 4 * (j - 1)>>
      /\ size \in {16, 32} => (NumGrid = 0 /\ NumScan = 0)
      /\ size = 64 => (NumGrid > 0 /\ NumScan = 0)
      /\ size \in {128, 256, 512, 1024} => (NumGrid > 0 /\ NumScan > 0)

\* the routine finished on the 64 pixel icon with a grid and no scanlines
C8_Witness ==
    /\ ipc = "done"
    /\ size = 64
    /\ NumGrid > 0
    /\ NumScan = 0

\* the constants of the claim as the finished routine used them
UsedScaledConstants(accentWidth) ==
    LET P == (60 * size) \div 512
        R == (80 * size) \div 512
        G == (16 * size) \div 512
        A == (30 * size) \div 512
        S == (32 * size) \div 512
    IN  /\ BorderCall.args = <<P, P, size - P, size - P, R>>
        /\ CellFillCall(2).args[1] - CellFillCall(1).args[3] = G
        /\ CellFillCall(3).args[2] - CellFillCall(1).args[4] = G
        /\ AccentCall(1).args = <<P, P + R, P, P + R + A>>
        /\ AccentCall(2).args = <<P + R, P, P + R + A, P>>
        /\ AccentCall(3).args = <<size - P, size - P - R, size - P, size - P - R - A>>
        /\ AccentCall(4).args = <<size - P - R, size - P, size - P - R - A, size - P>>
        /\ \A j \in 1..4 : AccentCall(j).width = accentWidth
        /\ NumGrid > 0 => calls[3].args[1] - calls[2].args[1] = S

\* C9 as stated: for every size of the table, padding, corner radius, cell
\* gap, accent length, accent width and grid spacing are 60, 80, 16, 30, 4 and
\* 32 scaled by size / 512 and truncated.
C9_AllConstantsScaled ==
    (ipc = "done" /\ size \in TableSizes) =>
        UsedScaledConstants((4 * size) \div 512)

\* C9 as amended: padding, corner radius, cell gap, accent length and grid
\* spacing are 60, 80, 16, 30 and 32 scaled by size / 512 and truncated; the
\* accent width is the truncated scaled 4 but never less than 2.
C9_ConstantsScaledWidthFloored ==
    (ipc = "done" /\ size \in TableSizes) =>
        UsedScaledConstants(IF (4 * size) \div 512 < 2 THEN 2 ELSE (4 * size) \div 512)

\* the routine finished on the 128 pixel icon, whose scaled accent width is 1
C9_Witness ==
    /\ ipc = "done"
    /\ size = 128
    /\ AccentCall(4).width = 2

-----------------------------------------------------------------------------
(* Claims about main and generate_contents_json, under Spec *)

ImageNames == { SIZES[k][3] : k \in 1..Len(SIZES) }

\* the names of the image files whose write completed, in order
WrittenImages == SelectSeq(written, LAMBDA n : n # ManifestName)

\* the decimal numerals of the logical sizes
Numeral(n) ==
    CASE n = 16 -> "16" [] n = 32 -> "32" [] n = 128 -> "128"
      [] n = 256 -> "256" [] n = 512 -> "512"

\* C1: the images list of the manifest is the element-wise image of SIZES: ten
\* entries, entry i with the i-th file name, idiom "mac", the i-th scale tag
\* and size "LxL", L the pixel size for "1x" and half of it for "2x" (the 32
\* pixel "2x" entry gives "16x16", the 512 pixel "1x" entry "512x512"); info
\* is author "xcode", version 1.
C1_ManifestIsImageOfTable ==
    (ManifestName \in DOMAIN files /\ files[ManifestName].kind = "json") =>
      LET m == files[ManifestName].data
          L(i) == IF SIZES[i][2] = "1x" THEN SIZES[i][1]
                  ELSE IF SIZES[i][1] % 2 = 0 THEN SIZES[i][1] \div 2 ELSE -1
      IN  /\ DOMAIN m = {"images", "info"}
          /\ Len(m.images) = Len(SIZES)
          /\ Len(m.images) = 10
          /\ \A i \in 1..Len(SIZES) :
                m.images[i] = [filename |-> SIZES[i][3],
                               idiom    |-> "mac",
                               scale    |-> SIZES[i][2],
                               size     |-> Numeral(L(i)) \o "x" \o Numeral(L(i))]
          /\ SIZES[2][1] = 32 /\ SIZES[2][2] = "2x" /\ m.images[2].size = "16x16"
          /\ SIZES[9][1] = 512 /\ SIZES[9][2] = "1x" /\ m.images[9].size = "512x512"
          /\ m.info = [author |-> "xcode", version |-> 1]

\* main ran to completion and the manifest is in the directory
C1_Witness ==
    /\ pc = "done"
    /\ ManifestName \in DOMAIN files
    /\ files[ManifestName].kind = "json"
    /\ Len(files[ManifestName].data.images) = 10

\* the directory after the loop of lines 219-222 ran on an empty directory
RECURSIVE SequentialRun(_, _)
SequentialRun(dir, k) ==
    IF k > Len(SIZES) THEN dir
    ELSE SequentialRun(WriteFile(dir, SIZES[k][3],
                                 PngFile([size |-> SIZES[k][1], painted |-> TRUE])),
                       k + 1)

SequentialImages == SequentialRun(NoFiles, 1)

\* C2: when main ran to completion from an empty directory, the directory
\* holds exactly one image file per table entry, under that entry's name (ten
\* distinct names), and the manifest, and nothing else.
C2_ExactlyTheTableAndTheManifest ==
    (pc = "done" /\ DOMAIN files0 = {}) =>
      /\ Cardinality(ImageNames) = 10
      /\ ManifestName \notin ImageNames
      /\ DOMAIN files = ImageNames \cup {ManifestName}
      /\ Cardinality(DOMAIN files) = 11
      /\ \A k \in 1..Len(SIZES) :
            files[SIZES[k][3]] = [kind |-> "png",
                                  canvas |-> [size |-> SIZES[k][1], painted |-> TRUE]]
      /\ files[ManifestName].kind = "json"
      /\ Len(written) = 11

\* main ran to completion from an empty directory that it had to create
C2_Witness ==
    /\ pc = "done"
    /\ DOMAIN files0 = {}
    /\ Cardinality(DOMAIN files) = 11
    /\ dirExists

\* the names main has touched: files that are new or differ from what was there
Touched ==
    { n \in DOMAIN files : n \notin DOMAIN files0 \/ files[n] # files0[n] }

\* C3: with any write allowed to fail, the image files written so far are a
\* prefix of the table in table order, a failed run does nothing more, and
\* the manifest is written only after all ten images (a run that failed on an
\* image has no manifest).
C3_PrefixThenManifest ==
    pc # "idle" =>
      /\ Len(WrittenImages) <= Len(SIZES)
      /\ \A k \in 1..Len(WrittenImages) : WrittenImages[k] = SIZES[k][3]
      /\ \A k \in 1..Len(written) :
            written[k] = ManifestName => (k = Len(SIZES) + 1 /\ k = Len(written))
      /\ \A k \in 1..Len(SIZES) :
            (SIZES[k][3] \in Touched /\ files[SIZES[k][3]].kind = "png")
               <=> k <= Len(WrittenImages)
      /\ \A n \in Touched :
            \/ \E k \in 1..Len(SIZES) :
                  /\ n = SIZES[k][3]
                  /\ k <= Len(WrittenImages) + 1
                  /\ k = Len(WrittenImages) + 1 => (pc = "failed" /\ files[n] = PartialFile)
            \/ n = ManifestName /\ Len(WrittenImages) = Len(SIZES)
      /\ pc = "failed" => ~ ENABLED Next
      /\ (pc = "failed" /\ Len(WrittenImages) < Len(SIZES)) =>
            /\ ManifestName \notin Touched
            /\ \A k \in 1..Len(written) : written[k] # ManifestName

\* the save of the fourth image failed and left an incomplete file
C3_Witness ==
    /\ pc = "failed"
    /\ Len(written) = 3
    /\ SIZES[4][3] \in DOMAIN files
    /\ files[SIZES[4][3]] = PartialFile

-----------------------------------------------------------------------------
(* The claim about processing the entries in any interleaving, under SpecPar *)

\* C4: whatever the order and the interleaving of the entries' steps, every
\* file in the directory is the file the sequential table-order run writes
\* under that name, and when every entry is saved the directory is exactly
\* the directory of the sequential run; no entry's canvas is another's.
C4_AnyInterleavingSameFiles ==
    wstage # << >> =>
      /\ \A n \in DOMAIN files :
            n \in DOMAIN SequentialImages /\ files[n] = SequentialImages[n]
      /\ (\A k \in 1..Len(SIZES) : wstage[k] = "saved") => files = SequentialImages
      /\ \A k \in 1..Len(SIZES) :
            wstage[k] # "todo" => wcanvas[k].size = SIZES[k][1]

\* the last entry is saved while the first has not started and two others are
\* in the middle of their steps
C4_Witness ==
    /\ wstage # << >>
    /\ wstage[10] = "saved"
    /\ wstage[1] = "todo"
    /\ wstage[2] = "drawn"
    /\ wstage[3] = "allocated"
    /\ SIZES[10][3] \in DOMAIN files

=============================================================================
